---- MODULE Spec2Model ----
(***************************************************************************)
(* Model of library/ntc_reboot.py: the Ansible module main() that reboots  *)
(* a network device through the pyntc device library.                      *)
(*                                                                         *)
(* An optional value is a set with at most one element: {} is Python's     *)
(* None (or an argument the caller omitted), {v} is the value v.           *)
(***************************************************************************)
EXTENDS Integers, Sequences, FiniteSets, TLC

\* ---- bounds of the input domains ----
MaxTimer == 1
MaxPort == 2

Timers == (0 - 1) .. MaxTimer
Ports == 1 .. MaxPort
Secrets == {"s3cret"}
Hosts == {"sw1"}
Usernames == {"admin"}
Passwords == {"pw"}
LibErrors == {"unreachable"}

Opt(S) == {{}} \cup {{v} : v \in S}
The(o) == CHOOSE v \in o : TRUE

\* ---- module-level constants of ntc_reboot.py ----
PLATFORM_NXAPI == "cisco_nxos_nxapi"
PLATFORM_IOS == "cisco_ios"
PLATFORM_EAPI == "arista_eos_eapi"

Platforms == {PLATFORM_NXAPI, PLATFORM_IOS, PLATFORM_EAPI}
Transports == {"http", "https"}

platform_to_device_type_swapped ==
    (PLATFORM_EAPI :> "nxos") @@ (PLATFORM_NXAPI :> "eos") @@ (PLATFORM_IOS :> "ios")

platform_to_device_type ==
    (PLATFORM_EAPI :> "eos") @@ (PLATFORM_NXAPI :> "nxos") @@ (PLATFORM_IOS :> "ios")

supported_timer_platforms == {PLATFORM_IOS}

MSG_NO_PYNTC == "pyntc Python library not found."
MSG_CONFIRM == "confirm must be set to true for this module to work."
MsgTimer(platform) == "Timer parameter not supported on platform " \o platform \o "."

\* ---- the arguments a caller may hand to the module ----
Args ==
    [platform : Platforms, confirm : Opt(BOOLEAN), timer : Opt(Timers),
     host : Hosts, username : Usernames, password : Passwords,
     secret : Opt(Secrets), transport : Opt(Transports), port : Opt(Ports)]

VARIABLES
    HAS_PYNTC,   \* whether "from pyntc import ntc_device" succeeded
    args,        \* what the caller supplied
    params,      \* module.params, once AnsibleModule has parsed args
    pc,          \* position of main()
    kwargs,      \* the keyword options main() assembles for ntc_device
    changed,     \* local variable of main(), {} while unassigned
    rebooted,    \* local variable of main(), {} while unassigned
    calls,       \* the calls made into pyntc, in order
    raised,      \* the errors pyntc raised, in order
    connected,   \* pyntc's device connection is open
    reports      \* what the invocation reported: fail_json, exit_json, or an uncaught exception

vars == <<HAS_PYNTC, args, params, pc, kwargs, changed, rebooted, calls, raised, connected, reports>>

\* ---- argument_spec: defaults applied by AnsibleModule ----
Default(o, d) == IF o = {} THEN {d} ELSE o

Params_ConfirmDefaultTrue(a) ==
    [platform |-> a.platform, confirm |-> The(Default(a.confirm, TRUE)), timer |-> a.timer,
     host |-> a.host, username |-> a.username, password |-> a.password,
     secret |-> a.secret, transport |-> Default(a.transport, "https"), port |-> a.port]

Params(a) ==
    [platform |-> a.platform, confirm |-> The(Default(a.confirm, FALSE)), timer |-> a.timer,
     host |-> a.host, username |-> a.username, password |-> a.password,
     secret |-> a.secret, transport |-> Default(a.transport, "https"), port |-> a.port]

\* ---- the conditions main() tests ----
PyntcMissing_Unchecked(has) == FALSE

PyntcMissing(has) == ~has

ConfirmRefused(p) == ~p.confirm

TimerUnsupported_Truthy(p) ==
    p.timer # {} /\ The(p.timer) # 0 /\ p.platform \notin supported_timer_platforms

TimerUnsupported(p) ==
    p.timer # {} /\ p.platform \notin supported_timer_platforms

\* ---- kwargs = {} followed by the three "is not None" tests ----
KwOf(key, o) == IF o # {} THEN key :> The(o) ELSE <<>>

BuildKwargs_NoSecret(p) ==
    KwOf("transport", p.transport) @@ KwOf("port", p.port)

BuildKwargs(p) ==
    KwOf("transport", p.transport) @@ KwOf("port", p.port) @@ KwOf("secret", p.secret)

\* ---- keyword arguments of device.reboot ----
RebootKw_Truthy(p) ==
    IF p.timer # {} /\ The(p.timer) # 0
    THEN [confirm |-> TRUE, timer |-> The(p.timer)]
    ELSE [confirm |-> TRUE]

RebootKw(p) ==
    IF p.timer # {}
    THEN [confirm |-> TRUE, timer |-> The(p.timer)]
    ELSE [confirm |-> TRUE]

\* ---- statement order of main() ----
Succ_TimerCheckFirst(l) ==
    CASE l = "parse" -> "check_pyntc"
      [] l = "check_pyntc" -> "check_timer"
      [] l = "check_timer" -> "check_confirm"
      [] l = "check_confirm" -> "kwargs"
      [] l = "kwargs" -> "device"
      [] l = "device" -> "open"
      [] l = "open" -> "reboot"
      [] l = "reboot" -> "close"
      [] l = "close" -> "exit"
      [] l = "exit" -> "done"

Succ_RebootBeforeOpen(l) ==
    CASE l = "parse" -> "check_pyntc"
      [] l = "check_pyntc" -> "check_confirm"
      [] l = "check_confirm" -> "check_timer"
      [] l = "check_timer" -> "kwargs"
      [] l = "kwargs" -> "device"
      [] l = "device" -> "reboot"
      [] l = "reboot" -> "open"
      [] l = "open" -> "close"
      [] l = "close" -> "exit"
      [] l = "exit" -> "done"

Succ_NoClose(l) ==
    CASE l = "parse" -> "check_pyntc"
      [] l = "check_pyntc" -> "check_confirm"
      [] l = "check_confirm" -> "check_timer"
      [] l = "check_timer" -> "kwargs"
      [] l = "kwargs" -> "device"
      [] l = "device" -> "open"
      [] l = "open" -> "reboot"
      [] l = "reboot" -> "exit"
      [] l = "close" -> "exit"
      [] l = "exit" -> "done"

Succ(l) ==
    CASE l = "parse" -> "check_pyntc"
      [] l = "check_pyntc" -> "check_confirm"
      [] l = "check_confirm" -> "check_timer"
      [] l = "check_timer" -> "kwargs"
      [] l = "kwargs" -> "device"
      [] l = "device" -> "open"
      [] l = "open" -> "reboot"
      [] l = "reboot" -> "close"
      [] l = "close" -> "exit"
      [] l = "exit" -> "done"

\* ---- where main() goes after a pyntc call: nothing catches an exception ----
AfterCall_Swallowed(l, err) == Succ(l)

AfterCall(l, err) == IF err # {} THEN "done" ELSE Succ(l)

\* ---- module.fail_json(msg=m): report the failure and exit the process ----
fail_json(m) ==
    /\ reports' = Append(reports, [kind |-> "fail_json", msg |-> m])
    /\ pc' = "done"

\* ---- a call into pyntc: returns, or raises err, which main() does not catch ----
LibCall(l, call, err) ==
    /\ calls' = Append(calls, call)
    /\ raised' = IF err # {} THEN Append(raised, [op |-> call.op, msg |-> The(err)]) ELSE raised
    /\ reports' = IF AfterCall(l, err) = "done"
                  THEN Append(reports, [kind |-> "exception", msg |-> The(err)])
                  ELSE reports
    /\ pc' = AfterCall(l, err)

Init ==
    /\ HAS_PYNTC \in BOOLEAN
    /\ args \in Args
    /\ params = <<>>
    /\ pc = "parse"
    /\ kwargs = <<>>
    /\ changed = {}
    /\ rebooted = {}
    /\ calls = <<>>
    /\ raised = <<>>
    /\ connected = FALSE
    /\ reports = <<>>

\* module = AnsibleModule(argument_spec=...)
AnsibleModule ==
    /\ pc = "parse"
    /\ params' = Params(args)
    /\ pc' = Succ(pc)
    /\ UNCHANGED <<HAS_PYNTC, args, kwargs, changed, rebooted, calls, raised, connected, reports>>

\* if not HAS_PYNTC: module.fail_json(...)
CheckPyntc ==
    /\ pc = "check_pyntc"
    /\ IF PyntcMissing(HAS_PYNTC)
       THEN fail_json(MSG_NO_PYNTC)
       ELSE pc' = Succ(pc) /\ UNCHANGED reports
    /\ UNCHANGED <<HAS_PYNTC, args, params, kwargs, changed, rebooted, calls, raised, connected>>

\* if not confirm: module.fail_json(...)
CheckConfirm ==
    /\ pc = "check_confirm"
    /\ IF ConfirmRefused(params)
       THEN fail_json(MSG_CONFIRM)
       ELSE pc' = Succ(pc) /\ UNCHANGED reports
    /\ UNCHANGED <<HAS_PYNTC, args, params, kwargs, changed, rebooted, calls, raised, connected>>

\* if timer is not None and platform not in supported_timer_platforms: module.fail_json(...)
CheckTimer ==
    /\ pc = "check_timer"
    /\ IF TimerUnsupported(params)
       THEN fail_json(MsgTimer(params.platform))
       ELSE pc' = Succ(pc) /\ UNCHANGED reports
    /\ UNCHANGED <<HAS_PYNTC, args, params, kwargs, changed, rebooted, calls, raised, connected>>

\* kwargs = {} ... kwargs['secret'] = secret
AssembleKwargs ==
    /\ pc = "kwargs"
    /\ kwargs' = BuildKwargs(params)
    /\ pc' = Succ(pc)
    /\ UNCHANGED <<HAS_PYNTC, args, params, changed, rebooted, calls, raised, connected, reports>>

\* device = ntc_device(device_type, host, username, password, **kwargs)
NtcDevice ==
    /\ pc = "device"
    /\ \E err \in Opt(LibErrors) :
          LibCall(pc, [op |-> "ntc_device",
                       args |-> <<platform_to_device_type[params.platform],
                                  params.host, params.username, params.password>>,
                       kw |-> kwargs], err)
    /\ UNCHANGED <<HAS_PYNTC, args, params, kwargs, changed, rebooted, connected>>

\* device.open(); changed = False; rebooted = False
Open ==
    /\ pc = "open"
    /\ \E err \in Opt(LibErrors) :
          /\ LibCall(pc, [op |-> "open", args |-> <<>>, kw |-> <<>>], err)
          /\ connected' = IF err = {} THEN TRUE ELSE connected
          /\ IF pc' # "done"
             THEN changed' = {FALSE} /\ rebooted' = {FALSE}
             ELSE UNCHANGED <<changed, rebooted>>
    /\ UNCHANGED <<HAS_PYNTC, args, params, kwargs>>

\* device.reboot(confirm=True[, timer=timer]); changed = True; rebooted = True
Reboot ==
    /\ pc = "reboot"
    /\ \E err \in Opt(LibErrors) :
          /\ LibCall(pc, [op |-> "reboot", args |-> <<>>, kw |-> RebootKw(params)], err)
          /\ IF pc' # "done"
             THEN changed' = {TRUE} /\ rebooted' = {TRUE}
             ELSE UNCHANGED <<changed, rebooted>>
    /\ UNCHANGED <<HAS_PYNTC, args, params, kwargs, connected>>

\* device.close()
Close ==
    /\ pc = "close"
    /\ \E err \in Opt(LibErrors) :
          /\ LibCall(pc, [op |-> "close", args |-> <<>>, kw |-> <<>>], err)
          /\ connected' = IF err = {} THEN FALSE ELSE connected
    /\ UNCHANGED <<HAS_PYNTC, args, params, kwargs, changed, rebooted>>

\* module.exit_json(changed=changed, rebooted=rebooted)
ExitJson ==
    /\ pc = "exit"
    /\ reports' = Append(reports, [kind |-> "exit_json", changed |-> The(changed), rebooted |-> The(rebooted)])
    /\ pc' = Succ(pc)
    /\ UNCHANGED <<HAS_PYNTC, args, params, kwargs, changed, rebooted, calls, raised, connected>>

Next ==
    \/ AnsibleModule
    \/ CheckPyntc
    \/ CheckConfirm
    \/ CheckTimer
    \/ AssembleKwargs
    \/ NtcDevice
    \/ Open
    \/ Reboot
    \/ Close
    \/ ExitJson

Spec == Init /\ [][Next]_vars

\* ---- vocabulary of the properties ----
Done == pc = "done"
Called(op) == \E i \in 1 .. Len(calls) : calls[i].op = op
CountCalls(op) == Cardinality({i \in 1 .. Len(calls) : calls[i].op = op})
RaisedIn(ops) == \E i \in 1 .. Len(raised) : raised[i].op \in ops
FailedWith(m) ==
    Len(reports) = 1 /\ reports[1].kind = "fail_json" /\ reports[1].msg = m
Failed == Done /\ Len(reports) >= 1 /\ reports[1].kind \in {"fail_json", "exception"}
Succeeded ==
    /\ Len(reports) = 1
    /\ reports[1].kind = "exit_json"
    /\ reports[1].changed = TRUE
    /\ reports[1].rebooted = TRUE
ResultReported == \E i \in 1 .. Len(reports) : reports[i].kind = "exit_json"
TimerOnOtherPlatform == args.timer # {} /\ args.platform # PLATFORM_IOS

\* C1: with confirm omitted or false, on every platform and for every other
\* parameter, no call into pyntc is ever made, no result is reported, and the
\* invocation ends in a failure.
C1_ConfirmGuard ==
    args.confirm # {TRUE} =>
        /\ calls = <<>>
        /\ ~ResultReported
        /\ Done => Len(reports) = 1 /\ reports[1].kind = "fail_json"

C1_Witness ==
    /\ Done /\ HAS_PYNTC
    /\ args.confirm = {} /\ args.platform = PLATFORM_EAPI
    /\ FailedWith(MSG_CONFIRM)
    /\ calls = <<>>

\* C2 (as stated): with confirm true and a timer on a platform other than
\* cisco_ios, the invocation ends with the timer message naming the platform
\* and makes no call into pyntc.
C2_Original ==
    (args.confirm = {TRUE} /\ TimerOnOtherPlatform) =>
        /\ calls = <<>>
        /\ Done => FailedWith(MsgTimer(args.platform))

\* C2 (amended): the same, provided the pyntc library could be imported.
C2_TimerRejected ==
    (HAS_PYNTC /\ args.confirm = {TRUE} /\ TimerOnOtherPlatform) =>
        /\ calls = <<>>
        /\ ~ResultReported
        /\ Done => FailedWith(MsgTimer(args.platform))

C2_Witness ==
    /\ Done /\ HAS_PYNTC
    /\ args.confirm = {TRUE} /\ args.timer = {0} /\ args.platform = PLATFORM_NXAPI
    /\ FailedWith("Timer parameter not supported on platform cisco_nxos_nxapi.")
    /\ calls = <<>>

\* C3: on cisco_ios with confirm true and a timer t, when pyntc is present
\* and raises no error, reboot is called exactly once, with confirm=True and
\* timer=t, and the invocation reports success.
C3_TimerForwarded ==
    (Done /\ HAS_PYNTC /\ raised = <<>> /\ args.platform = PLATFORM_IOS
          /\ args.confirm = {TRUE} /\ args.timer # {}) =>
        /\ CountCalls("reboot") = 1
        /\ \A i \in 1 .. Len(calls) :
              calls[i].op = "reboot" =>
                  /\ DOMAIN calls[i].kw = {"confirm", "timer"}
                  /\ calls[i].kw.confirm = TRUE
                  /\ calls[i].kw.timer = The(args.timer)
        /\ Succeeded

C3_Witness ==
    /\ Done /\ HAS_PYNTC /\ raised = <<>>
    /\ args.platform = PLATFORM_IOS /\ args.confirm = {TRUE} /\ args.timer = {0}
    /\ Called("reboot")
    /\ Succeeded

\* C4: on cisco_nxos_nxapi or arista_eos_eapi with confirm true and no timer,
\* when pyntc is present and raises no error, the calls are exactly: the
\* factory for the mapped device type (nxos, eos), open, reboot(confirm=True)
\* without a timer, close; then the result changed=true, rebooted=true.
C4_OpenRebootClose ==
    (Done /\ HAS_PYNTC /\ raised = <<>> /\ args.platform \in {PLATFORM_NXAPI, PLATFORM_EAPI}
          /\ args.confirm = {TRUE} /\ args.timer = {}) =>
        /\ Len(calls) = 4
        /\ calls[1].op = "ntc_device"
        /\ calls[1].args[1] = (IF args.platform = PLATFORM_NXAPI THEN "nxos" ELSE "eos")
        /\ calls[2].op = "open"
        /\ calls[3].op = "reboot"
        /\ DOMAIN calls[3].kw = {"confirm"}
        /\ calls[3].kw.confirm = TRUE
        /\ calls[4].op = "close"
        /\ Succeeded

C4_Witness ==
    /\ Done /\ HAS_PYNTC /\ raised = <<>>
    /\ args.platform = PLATFORM_EAPI /\ args.confirm = {TRUE} /\ args.timer = {}
    /\ Len(calls) = 4 /\ calls[1].args[1] = "eos"
    /\ Succeeded

\* C5 (as stated): each of secret, port and transport is among the keyword
\* options of the factory call if and only if the caller supplied it.
C5_Original ==
    \A i \in 1 .. Len(calls) :
        calls[i].op = "ntc_device" =>
            \A k \in {"secret", "port", "transport"} :
                k \in DOMAIN calls[i].kw <=> args[k] # {}

\* C5 (amended): secret and port are among the keyword options of the factory
\* call if and only if the caller supplied them, with the caller's value;
\* transport is always among them, with the caller's value when supplied and
\* the default "https" when omitted.
C5_KwargsForwarded ==
    \A i \in 1 .. Len(calls) :
        calls[i].op = "ntc_device" =>
            /\ DOMAIN calls[i].kw \subseteq {"secret", "port", "transport"}
            /\ \A k \in {"secret", "port"} :
                  /\ k \in DOMAIN calls[i].kw <=> args[k] # {}
                  /\ args[k] # {} => calls[i].kw[k] = The(args[k])
            /\ "transport" \in DOMAIN calls[i].kw
            /\ calls[i].kw["transport"] =
                  (IF args.transport # {} THEN The(args.transport) ELSE "https")

C5_Witness ==
    /\ Called("ntc_device")
    /\ args.transport = {} /\ args.port = {} /\ args.secret # {}
    /\ DOMAIN calls[1].kw = {"secret", "transport"}

\* C6: once pyntc has raised an error in open, reboot or close, that call is
\* the last call of the invocation, the invocation is over, no result is
\* reported, and the error with its message is the only thing reported.
C6_ErrorAborts ==
    RaisedIn({"open", "reboot", "close"}) =>
        /\ Len(raised) = 1
        /\ calls[Len(calls)].op = raised[1].op
        /\ CountCalls(raised[1].op) = 1
        /\ Done
        /\ ~ResultReported
        /\ Len(reports) = 1
        /\ reports[1].kind = "exception"
        /\ reports[1].msg = raised[1].msg

C6_Witness ==
    /\ Done
    /\ RaisedIn({"reboot"})
    /\ ~Called("close")
    /\ ~ResultReported

\* C7 (as stated): in every invocation that ends in a failure, reboot was
\* not called.
C7_Original == Failed => ~Called("reboot")

\* C7 (amended): in every invocation that ends in a validation failure, a
\* missing-library failure, or an error raised by the factory or by open,
\* reboot was not called.
C7_NoRebootBeforeFailure ==
    (Failed /\ ~RaisedIn({"reboot", "close"})) => ~Called("reboot")

C7_Witness ==
    /\ Failed
    /\ RaisedIn({"open"})
    /\ ~Called("reboot")

\* C8 (as stated): no invocation terminates with the connection still open.
C8_Original == Done => ~connected

\* C8 (amended): in an invocation where open returned, close is called,
\* right after reboot, exactly when reboot returns, and the connection is
\* released when that close returns; when reboot raises an error close is
\* not called and the invocation terminates with the connection still open.
C8_CloseAfterReboot ==
    (Done /\ Called("open") /\ ~RaisedIn({"open"})) =>
        IF RaisedIn({"reboot"})
        THEN ~Called("close") /\ connected
        ELSE /\ Len(calls) = 4
             /\ calls[3].op = "reboot"
             /\ calls[4].op = "close"
             /\ ~RaisedIn({"close"}) => ~connected

C8_Witness ==
    /\ Done /\ raised = <<>>
    /\ Called("open") /\ calls[Len(calls)].op = "close"
    /\ ~connected

\* C9: when pyntc could not be imported, main() never gets past the library
\* check: no confirm or timer check is reached, no call into pyntc is made,
\* and the invocation ends with 'pyntc Python library not found.'.
C9_MissingLibrary ==
    ~HAS_PYNTC =>
        /\ pc \in {"parse", "check_pyntc", "done"}
        /\ calls = <<>>
        /\ Done => FailedWith(MSG_NO_PYNTC)

C9_Witness ==
    /\ Done /\ ~HAS_PYNTC
    /\ args.confirm = {TRUE} /\ args.timer # {} /\ args.platform = PLATFORM_NXAPI
    /\ FailedWith("pyntc Python library not found.")

\* C10: with the library available, confirm false or omitted together with a
\* timer on a platform other than cisco_ios ends with the confirm message;
\* the timer message is the outcome only when confirm is true; an invocation
\* never reports more than one outcome and ends with exactly one.
C10_Precedence ==
    /\ (Done /\ HAS_PYNTC /\ args.confirm # {TRUE} /\ TimerOnOtherPlatform) =>
           FailedWith(MSG_CONFIRM)
    /\ (\E i \in 1 .. Len(reports) :
           reports[i].kind = "fail_json" /\ reports[i].msg = MsgTimer(args.platform)) =>
           args.confirm = {TRUE}
    /\ Len(reports) <= 1
    /\ Done => Len(reports) = 1

C10_Witness ==
    /\ Done /\ HAS_PYNTC
    /\ args.confirm = {FALSE} /\ args.timer # {} /\ args.platform = PLATFORM_EAPI
    /\ FailedWith("confirm must be set to true for this module to work.")

====
